---- MODULE Spec2Model ----
(***************************************************************************)
(* State-machine model of doris::RepeatNode (be/src/exec/repeat_node.cpp), *)
(* the row-expansion operator behind GROUPING SETS / ROLLUP / CUBE.        *)
(*                                                                         *)
(* Conventions.  C++ indices are 0-based and TLA+ sequences are 1-based:   *)
(* _repeat_id_idx keeps the code's 0-based value and every sequence access *)
(* adds 1.  slot_index is kept 1-based (the position in slots()).          *)
(* A unique_ptr / pointer is a record with a field `null`.                 *)
(***************************************************************************)
EXTENDS Integers, Sequences, FiniteSets, TLC

\* ---------------------------------------------------------------- bounds
MaxK == 2          \* largest number of grouping combinations in a plan
NumExprs == 2      \* tnode.repeat_node.exprs: number of value slots
NumGrouping == 1   \* number of indicator columns (_grouping_list.size())
MaxRows == 2       \* state->batch_size(): rows a child batch can hold
MaxPulls == 2      \* child get_next calls explored
MaxCloses == 2     \* close() calls explored

\* ------------------------------------------------ descriptors and values
\* ids of the slots of the output tuple, value slots first, then the
\* indicator (grouping function) slots
slot_id(slot_index) == 10 + slot_index
ValueSlotIds == {slot_id(k) : k \in 1..NumExprs}
OutputTupleDesc == [null |-> FALSE,
                    slots |-> [k \in 1..(NumExprs + NumGrouping) |-> slot_id(k)]]
NullTupleDesc == [null |-> TRUE, slots |-> <<>>]

\* indicator matrices of the plans explored: column j holds, for combination
\* i, a value that differs from column to column and from combination to
\* combination, in steps of b
GroupingSteps == {3}
GroupingLists(K) ==
    {[j \in 1..NumGrouping |-> [i \in 1..K |-> b * (i - 1) + 10 * (j - 1)]] :
        b \in GroupingSteps}

\* the j-th row of the batch the child delivers at its pull number p: one
\* value per expression, distinct for every row and expression of the stream
child_row(p, j) ==
    [id |-> <<p, j>>, vals |-> [k \in 1..NumExprs |-> 100 * p + 10 * j + k]]
child_rows(p, n) == [j \in 1..n |-> child_row(p, j)]

NullBatch == [null |-> TRUE, rows |-> <<>>]
EmptyRowBatch == [rows |-> <<>>, added |-> 0]

NoCall == [op |-> "none", status |-> "OK", pulled |-> FALSE, buffered |-> FALSE,
           idx |-> 0, eos_in |-> FALSE, eos_written |-> FALSE, repeated |-> FALSE,
           child_status |-> "OK", child_num_rows |-> 0, was_closed |-> FALSE,
           after_replay |-> FALSE]

VARIABLES
    _slot_id_set_list,   \* KeepSet[i]: sequence of sets of slot ids
    _all_slot_ids,       \* GroupingColumnSet
    _repeat_id_list,     \* combination pattern, only its size is used
    _grouping_list,      \* IndicatorMatrix: _grouping_list[j][i]
    _output_tuple_desc,
    _expr_evals_size,    \* _expr_evals.size()
    _child_row_batch,
    _child_eos,
    _repeat_id_idx,
    _is_closed,          \* ExecNode::_is_closed
    phase,               \* "constructed", "prepared", "opened", "failed"
    is_cancelled,        \* state->is_cancelled()
    child_pulls,         \* calls of child(0)->get_next
    child_close_calls,   \* calls of child(0)->close
    expr_close_calls,    \* calls of Expr::close(_exprs)
    eval_close_calls,    \* calls of ExprContext::close
    close_calls,         \* calls of RepeatNode::close
    row_batch,           \* the caller's output batch after the last get_next,
                         \* empty once close has been called
    eos,                 \* the caller's eos variable after the last get_next,
                         \* FALSE once close has been called
    last,                \* what the last call did
    replay_rows,         \* rows of the batch obtained by the last child pull
    replay_idx,          \* combination indexes emitted since that pull
    replay_emitted,      \* rows emitted since that pull
    replay_status,       \* status of that pull; the four are forgotten
                         \* once close has been called
    eos_reported         \* a get_next call has set the caller's eos to true

plan_vars == <<_slot_id_set_list, _all_slot_ids, _repeat_id_list, _grouping_list>>
node_vars == <<_output_tuple_desc, _expr_evals_size, _child_row_batch, _child_eos,
               _repeat_id_idx, _is_closed>>
child_vars == <<child_pulls, child_close_calls>>
close_vars == <<expr_close_calls, eval_close_calls, close_calls>>
out_vars == <<row_batch, eos>>
hist_vars == <<replay_rows, replay_idx, replay_emitted, replay_status>>
vars == <<plan_vars, node_vars, phase, is_cancelled, child_vars, close_vars,
          out_vars, last, hist_vars, eos_reported>>

\* -------------------------------------------------------------- the plan
\* the grouping column sets of the plans explored: the second value slot
\* alone, or the first two; every other value slot is a column the plan
\* passes through
GroupingSlotIdSets == {{slot_id(2)}, {slot_id(1), slot_id(2)}}

\* the consistent grouping plans with K combinations: every keep set is a
\* subset of the grouping column set, and the keep sets, the combination
\* pattern and every indicator column have K entries
Plans(K) ==
    {p \in [slot_id_set_list : [1..K -> SUBSET ValueSlotIds],
            all_slot_ids : GroupingSlotIdSets,
            repeat_id_list : {[i \in 1..K |-> i - 1]},
            grouping_list : GroupingLists(K)] :
        \A i \in 1..K : p.slot_id_set_list[i] \subseteq p.all_slot_ids}

\* RepeatNode::RepeatNode
Init ==
    /\ \E K \in 1..MaxK : \E p \in Plans(K) :
          /\ _slot_id_set_list = p.slot_id_set_list
          /\ _all_slot_ids = p.all_slot_ids
          /\ _repeat_id_list = p.repeat_id_list
          /\ _grouping_list = p.grouping_list
    /\ _output_tuple_desc = NullTupleDesc
    /\ _expr_evals_size = 0
    /\ _child_row_batch = NullBatch
    /\ _child_eos = FALSE
    /\ _repeat_id_idx = 0
    /\ _is_closed = FALSE
    /\ phase = "constructed"
    /\ is_cancelled = FALSE
    /\ child_pulls = 0
    /\ child_close_calls = 0
    /\ expr_close_calls = 0
    /\ eval_close_calls = 0
    /\ close_calls = 0
    /\ row_batch = EmptyRowBatch
    /\ eos = FALSE
    /\ last = NoCall
    /\ replay_rows = <<>>
    /\ replay_idx = <<>>
    /\ replay_emitted = 0
    /\ replay_status = "none"
    /\ eos_reported = FALSE

\* the plans a planner can hand over when nothing constrains the sizes: KS
\* keep sets, a combination pattern of K entries and indicator columns of KG
\* entries, the grouping column set being the union of the keep sets.  KS and
\* KG are at least max(K, 1), the largest index get_repeated_batch reads plus
\* one: with a shorter list line 124 or line 141 reads past the end of a
\* vector, which setup accepts in the same way.
AnyPlans ==
    UNION {
        {[slot_id_set_list |-> ks,
          all_slot_ids |-> UNION {ks[i] : i \in 1..KS},
          repeat_id_list |-> [i \in 1..K0 |-> i - 1],
          grouping_list |-> gl] :
            ks \in [1..KS -> SUBSET ValueSlotIds], gl \in GroupingLists(KG)} :
        <<K0, KS, KG>> \in {t \in (0..MaxK) \X (1..MaxK) \X (1..MaxK) :
                              t[2] >= t[1] /\ t[3] >= t[1]}}

\* RepeatNode::RepeatNode on any plan
InitAny ==
    /\ \E p \in AnyPlans :
          /\ _slot_id_set_list = p.slot_id_set_list
          /\ _all_slot_ids = p.all_slot_ids
          /\ _repeat_id_list = p.repeat_id_list
          /\ _grouping_list = p.grouping_list
    /\ _output_tuple_desc = NullTupleDesc
    /\ _expr_evals_size = 0
    /\ _child_row_batch = NullBatch
    /\ _child_eos = FALSE
    /\ _repeat_id_idx = 0
    /\ _is_closed = FALSE
    /\ phase = "constructed"
    /\ is_cancelled = FALSE
    /\ child_pulls = 0
    /\ child_close_calls = 0
    /\ expr_close_calls = 0
    /\ eval_close_calls = 0
    /\ close_calls = 0
    /\ row_batch = EmptyRowBatch
    /\ eos = FALSE
    /\ last = NoCall
    /\ replay_rows = <<>>
    /\ replay_idx = <<>>
    /\ replay_emitted = 0
    /\ replay_status = "none"
    /\ eos_reported = FALSE

\* ------------------------------------------------------- prepare and open
\* RepeatNode::prepare: looks the output tuple descriptor up and builds one
\* ExprContext per expression
prepare(desc_found, ctx_ok) ==
    /\ phase = "constructed"
    /\ close_calls = 0
    /\ _output_tuple_desc' = IF desc_found THEN OutputTupleDesc ELSE NullTupleDesc
    /\ _expr_evals_size' = IF desc_found /\ ctx_ok THEN NumExprs ELSE 0
    /\ phase' = IF desc_found /\ ctx_ok THEN "prepared" ELSE "failed"
    /\ last' = [NoCall EXCEPT !.op = "prepare",
                   !.status = IF ~desc_found THEN "InternalError"
                              ELSE IF ~ctx_ok THEN "ExprError" ELSE "OK"]
    /\ UNCHANGED <<plan_vars, _child_row_batch, _child_eos, _repeat_id_idx, _is_closed,
                   is_cancelled, child_vars, close_vars, out_vars, hist_vars, eos_reported>>

\* RepeatNode::open
open(evals_ok, child_ok) ==
    /\ phase = "prepared"
    /\ close_calls = 0
    /\ LET st == IF ~evals_ok THEN "ExprError"
                 ELSE IF is_cancelled THEN "Cancelled"
                 ELSE IF ~child_ok THEN "ChildError" ELSE "OK"
       IN /\ phase' = IF st = "OK" THEN "opened" ELSE "failed"
          /\ last' = [NoCall EXCEPT !.op = "open", !.status = st]
    /\ UNCHANGED <<plan_vars, node_vars, is_cancelled, child_vars, close_vars,
                   out_vars, hist_vars, eos_reported>>

\* ------------------------------------------------------------ capacities
\* state->batch_size()
batch_size == MaxRows

\* a child batch created with twice the batch size
child_batch_capacity_doubled == 2 * batch_size

\* line 165: the capacity of the batch handed to the child, which the child
\* fills with at most that many rows
child_batch_capacity == batch_size

\* row_batch->capacity(): the caller creates the output batch the way line
\* 165 creates the child's, with state->batch_size() rows
row_batch_capacity == batch_size

\* _output_tuple_desc->byte_size(): the null indicator bytes and the slots
byte_size == 1 + 8 * Len(_output_tuple_desc.slots)

\* line 105: the size of the tuple buffer allocated for the first row
tuple_buffer_size == row_batch_capacity * byte_size

\* lines 110-114: the offset in the tuple buffer of the tuple of the row
\* added as number row_index (1-based)
tuple_offset(row_index) == (row_index - 1) * byte_size

\* ------------------------------------------------------ get_repeated_batch
\* _expr_evals[slot_index]->get_value(src_row): the value the expression of
\* that slot extracts from the source row
get_value(slot_index, src_row) == src_row.vals[slot_index]

\* value_slot looking at the keep set of the first combination, whatever the
\* combination index
value_slot_first_set(slot_index, repeat_id_idx, src_row) ==
    LET id == _output_tuple_desc.slots[slot_index]
    IN IF id \in _all_slot_ids /\ id \notin _slot_id_set_list[1]
       THEN [is_null |-> TRUE, val |-> 0]
       ELSE [is_null |-> FALSE, val |-> get_value(slot_index, src_row)]

\* value_slot without the test of line 123: every slot missing from the keep
\* set is set null
value_slot_no_all_test(slot_index, repeat_id_idx, src_row) ==
    LET id == _output_tuple_desc.slots[slot_index]
    IN IF id \notin _slot_id_set_list[repeat_id_idx + 1]
       THEN [is_null |-> TRUE, val |-> 0]
       ELSE [is_null |-> FALSE, val |-> get_value(slot_index, src_row)]

\* lines 120-134: the value slot at slot_index of the tuple built for src_row
\* under combination repeat_id_idx.  A slot set null is not written; its
\* bytes are never read, they are shown as 0.
value_slot(slot_index, repeat_id_idx, src_row) ==
    LET id == _output_tuple_desc.slots[slot_index]
    IN IF id \in _all_slot_ids /\ id \notin _slot_id_set_list[repeat_id_idx + 1]
       THEN [is_null |-> TRUE, val |-> 0]
       ELSE [is_null |-> FALSE, val |-> get_value(slot_index, src_row)]

\* grouping_slot writing the combination's repeat id in place of the value
\* of the indicator column
grouping_slot_repeat_id(i, repeat_id_idx) ==
    [is_null |-> FALSE, val |-> _repeat_id_list[repeat_id_idx + 1]]

\* lines 137-143: the i-th (1-based) grouping function slot
grouping_slot(i, repeat_id_idx) ==
    [is_null |-> FALSE, val |-> _grouping_list[i][repeat_id_idx + 1]]

\* lines 116-144: the output row built from one row of the child batch
repeated_row(src_row, repeat_id_idx) ==
    [src |-> src_row.id,
     tuple |-> [slot_index \in 1..Len(_output_tuple_desc.slots) |->
                   IF slot_index <= _expr_evals_size
                   THEN value_slot(slot_index, repeat_id_idx, src_row)
                   ELSE grouping_slot(slot_index - _expr_evals_size, repeat_id_idx)]]

\* get_repeated_batch whose row loop stops one row early
get_repeated_batch_short(child_row_batch, repeat_id_idx, alloc_ok) ==
    LET n == Len(child_row_batch.rows) - 1
    IN IF n <= 0 THEN [status |-> "OK", batch |-> EmptyRowBatch]
       ELSE IF ~alloc_ok
       THEN [status |-> "InternalError", batch |-> [rows |-> <<>>, added |-> 1]]
       ELSE [status |-> "OK",
             batch |-> [rows |-> [row_index \in 1..n |->
                                     repeated_row(child_row_batch.rows[row_index],
                                                  repeat_id_idx)],
                        added |-> 0]]

\* get_repeated_batch walking the child batch from its last row to its first
get_repeated_batch_reversed(child_row_batch, repeat_id_idx, alloc_ok) ==
    LET n == Len(child_row_batch.rows)
    IN IF n = 0 THEN [status |-> "OK", batch |-> EmptyRowBatch]
       ELSE IF ~alloc_ok
       THEN [status |-> "InternalError", batch |-> [rows |-> <<>>, added |-> 1]]
       ELSE [status |-> "OK",
             batch |-> [rows |-> [row_index \in 1..n |->
                                     repeated_row(child_row_batch.rows[n + 1 - row_index],
                                                  repeat_id_idx)],
                        added |-> 0]]

\* get_repeated_batch that commits the row it has added before it tests the
\* result of the allocation
get_repeated_batch_early_commit(child_row_batch, repeat_id_idx, alloc_ok) ==
    LET n == Len(child_row_batch.rows)
    IN IF n = 0 THEN [status |-> "OK", batch |-> EmptyRowBatch]
       ELSE IF ~alloc_ok
       THEN [status |-> "InternalError",
             batch |-> [rows |-> <<repeated_row(child_row_batch.rows[1], repeat_id_idx)>>,
                        added |-> 0]]
       ELSE [status |-> "OK",
             batch |-> [rows |-> [row_index \in 1..n |->
                                     repeated_row(child_row_batch.rows[row_index],
                                                  repeat_id_idx)],
                        added |-> 0]]

\* RepeatNode::get_repeated_batch on an empty output batch.  rows are the
\* committed rows, added counts the rows added and not committed.  The tuple
\* buffer is allocated once, for the first row; alloc_ok is the outcome of
\* tuple_pool->allocate.
get_repeated_batch(child_row_batch, repeat_id_idx, alloc_ok) ==
    LET n == Len(child_row_batch.rows)
    IN IF n = 0 THEN [status |-> "OK", batch |-> EmptyRowBatch]
       ELSE IF ~alloc_ok
       THEN [status |-> "InternalError", batch |-> [rows |-> <<>>, added |-> 1]]
       ELSE [status |-> "OK",
             batch |-> [rows |-> [row_index \in 1..n |->
                                     repeated_row(child_row_batch.rows[row_index],
                                                  repeat_id_idx)],
                        added |-> 0]]

\* ---------------------------------------------------------------- get_next
\* get_next without the cancellation check
return_if_cancelled_missing == FALSE

\* line 153: RETURN_IF_CANCELLED(state)
return_if_cancelled == is_cancelled

\* line 159: no batch is buffered
child_batch_is_null == _child_row_batch.null

\* a call whose status is not tested
return_if_error_ignored(status) == FALSE

\* lines 166, 176: RETURN_IF_ERROR returns the status of the call it wraps
\* when that status is an error
return_if_error(status) == status # "OK"

\* the test of line 168 written with < in place of <=
child_batch_is_empty_strict(num_rows) == num_rows < 0

\* line 168: the batch just pulled holds no row
child_batch_is_empty(num_rows) == num_rows <= 0

\* lines 180-183 left out: the batch is never dropped, the index never reset
repeat_finished_never(repeat_id_idx) == FALSE

\* the test of line 180 written with > in place of >=
repeat_finished_late(repeat_id_idx) == repeat_id_idx > Len(_repeat_id_list)

\* line 180: the index, already incremented, has passed the last combination
repeat_finished(repeat_id_idx) == repeat_id_idx >= Len(_repeat_id_list)

\* RepeatNode::get_next, called with an empty row_batch and the caller's eos
\* variable holding eos_in.  child_ok, child_num_rows and child_eos are what
\* child(0)->get_next does if it is called: its status, the rows it leaves in
\* the batch and the eos flag it sets when it succeeds.
get_next(eos_in, alloc_ok, child_ok, child_num_rows, child_eos) ==
    /\ phase = "opened"
    /\ close_calls = 0
    \* the child answers only when line 166 asks it, and the pool only when
    \* line 176 is reached: an answer nobody reads is held at one value
    /\ (return_if_cancelled \/ ~child_batch_is_null \/ _child_eos)
          => (child_ok /\ child_eos /\ child_num_rows = 0)
    /\ (return_if_cancelled \/ (child_batch_is_null /\ _child_eos)) => alloc_ok
    /\ return_if_error(IF child_ok THEN "OK" ELSE "ChildError")
          => (child_eos /\ alloc_ok)
    /\ (child_batch_is_null /\ child_batch_is_empty(child_num_rows)) => alloc_ok
    /\ LET buffered == ~child_batch_is_null
           call == [NoCall EXCEPT !.op = "get_next", !.eos_in = eos_in,
                                  !.buffered = ~_child_row_batch.null,
                                  !.idx = _repeat_id_idx,
                                  !.after_replay =
                                      (last.op = "get_next" /\ last.repeated
                                       /\ Len(replay_idx) = Len(_repeat_id_list))]
       IN
       IF return_if_cancelled
       THEN \* line 153
            /\ last' = [call EXCEPT !.status = "Cancelled"]
            /\ row_batch' = EmptyRowBatch
            /\ eos' = eos_in
            /\ UNCHANGED <<_child_row_batch, _child_eos, _repeat_id_idx, child_pulls,
                           eos_reported, hist_vars>>
       ELSE IF ~buffered /\ _child_eos
       THEN \* lines 160-163
            /\ last' = [call EXCEPT !.eos_written = TRUE]
            /\ row_batch' = EmptyRowBatch
            /\ eos' = TRUE
            /\ eos_reported' = TRUE
            /\ UNCHANGED <<_child_row_batch, _child_eos, _repeat_id_idx, child_pulls,
                           hist_vars>>
       ELSE
         LET pull == ~buffered
             pulled == [null |-> FALSE, rows |-> child_rows(child_pulls + 1, child_num_rows)]
             batch == IF pull THEN pulled ELSE _child_row_batch
             call1 == IF pull
                      THEN [call EXCEPT !.pulled = TRUE,
                                        !.child_status = IF child_ok THEN "OK" ELSE "ChildError",
                                        !.child_num_rows = child_num_rows]
                      ELSE call
             rep == get_repeated_batch(batch, _repeat_id_idx, alloc_ok)
         IN
         /\ pull => child_pulls < MaxPulls
         /\ child_pulls' = IF pull THEN child_pulls + 1 ELSE child_pulls
         /\ replay_rows' = IF pull THEN pulled.rows ELSE replay_rows
         /\ replay_status' = IF pull THEN call1.child_status ELSE replay_status
         /\ IF pull /\ return_if_error(call1.child_status)
            THEN \* line 166: the error is returned, the new batch stays buffered
                 /\ last' = [call1 EXCEPT !.status = call1.child_status]
                 /\ _child_row_batch' = batch
                 /\ row_batch' = EmptyRowBatch
                 /\ eos' = eos_in
                 /\ replay_idx' = <<>>
                 /\ replay_emitted' = 0
                 /\ UNCHANGED <<_child_eos, _repeat_id_idx, eos_reported>>
            ELSE IF pull /\ child_batch_is_empty(child_num_rows)
            THEN \* lines 168-172
                 /\ last' = [call1 EXCEPT !.eos_written = TRUE]
                 /\ _child_row_batch' = NullBatch
                 /\ _child_eos' = child_eos
                 /\ row_batch' = EmptyRowBatch
                 /\ eos' = TRUE
                 /\ eos_reported' = TRUE
                 /\ replay_idx' = <<>>
                 /\ replay_emitted' = 0
                 /\ UNCHANGED _repeat_id_idx
            ELSE \* lines 175-185
                 /\ _child_eos' = IF pull THEN child_eos ELSE _child_eos
                 /\ row_batch' = rep.batch
                 /\ eos' = eos_in
                 /\ UNCHANGED eos_reported
                 /\ IF return_if_error(rep.status)
                    THEN \* line 176
                         /\ last' = [call1 EXCEPT !.status = rep.status]
                         /\ _child_row_batch' = batch
                         /\ replay_idx' = IF pull THEN <<>> ELSE replay_idx
                         /\ replay_emitted' = IF pull THEN 0 ELSE replay_emitted
                         /\ UNCHANGED _repeat_id_idx
                    ELSE \* lines 177-185
                         /\ last' = [call1 EXCEPT !.repeated = TRUE]
                         /\ replay_idx' = Append(IF pull THEN <<>> ELSE replay_idx,
                                                 _repeat_id_idx)
                         /\ replay_emitted' = (IF pull THEN 0 ELSE replay_emitted)
                                              + Len(rep.batch.rows)
                         /\ IF repeat_finished(_repeat_id_idx + 1)
                            THEN /\ _child_row_batch' = NullBatch
                                 /\ _repeat_id_idx' = 0
                            ELSE /\ _child_row_batch' = batch
                                 /\ _repeat_id_idx' = _repeat_id_idx + 1
    /\ UNCHANGED <<plan_vars, _output_tuple_desc, _expr_evals_size, _is_closed, phase,
                   is_cancelled, child_close_calls, close_vars>>

\* ------------------------------------------------------------------- close
\* ExecNode::is_closed
is_closed == _is_closed

\* close that closes the child first and returns its error before anything
\* of the node is released
close_child_first(child_ok) ==
    /\ close_calls < MaxCloses
    /\ close_calls' = close_calls + 1
    /\ IF is_closed
       THEN /\ last' = [NoCall EXCEPT !.op = "close", !.was_closed = TRUE]
            /\ UNCHANGED <<_child_row_batch, _expr_evals_size, _is_closed,
                           child_close_calls, expr_close_calls, eval_close_calls>>
       ELSE /\ child_close_calls' = child_close_calls + 1
            /\ _is_closed' = child_ok
            /\ last' = [NoCall EXCEPT !.op = "close",
                           !.status = IF child_ok THEN "OK" ELSE "ChildError"]
            /\ IF child_ok
               THEN /\ _child_row_batch' = NullBatch
                    /\ eval_close_calls' = eval_close_calls + _expr_evals_size
                    /\ _expr_evals_size' = 0
                    /\ expr_close_calls' = expr_close_calls + 1
               ELSE UNCHANGED <<_child_row_batch, _expr_evals_size, expr_close_calls,
                                eval_close_calls>>
    /\ row_batch' = EmptyRowBatch
    /\ eos' = FALSE
    /\ replay_rows' = <<>>
    /\ replay_idx' = <<>>
    /\ replay_emitted' = 0
    /\ replay_status' = "none"
    /\ UNCHANGED <<plan_vars, _output_tuple_desc, _child_eos, _repeat_id_idx, phase,
                   is_cancelled, child_pulls, eos_reported>>

\* RepeatNode::close; child_ok is the outcome of child(0)->close.
\* ExecNode::close, reached only when the child closed without error, marks
\* the node closed.
close(child_ok) ==
    /\ close_calls < MaxCloses
    /\ close_calls' = close_calls + 1
    /\ IF is_closed
       THEN /\ last' = [NoCall EXCEPT !.op = "close", !.was_closed = TRUE]
            /\ UNCHANGED <<_child_row_batch, _expr_evals_size, _is_closed,
                           child_close_calls, expr_close_calls, eval_close_calls>>
       ELSE /\ _child_row_batch' = NullBatch
            /\ eval_close_calls' = eval_close_calls + _expr_evals_size
            /\ _expr_evals_size' = 0
            /\ expr_close_calls' = expr_close_calls + 1
            /\ child_close_calls' = child_close_calls + 1
            /\ _is_closed' = child_ok
            /\ last' = [NoCall EXCEPT !.op = "close",
                           !.status = IF child_ok THEN "OK" ELSE "ChildError"]
    /\ row_batch' = EmptyRowBatch
    /\ eos' = FALSE
    /\ replay_rows' = <<>>
    /\ replay_idx' = <<>>
    /\ replay_emitted' = 0
    /\ replay_status' = "none"
    /\ UNCHANGED <<plan_vars, _output_tuple_desc, _child_eos, _repeat_id_idx, phase,
                   is_cancelled, child_pulls, eos_reported>>

\* the surrounding runtime cancels the query
Cancel ==
    /\ ~is_cancelled
    /\ is_cancelled' = TRUE
    /\ UNCHANGED <<plan_vars, node_vars, phase, child_vars, close_vars, out_vars,
                   last, hist_vars, eos_reported>>

Next ==
    \/ \E desc_found, ctx_ok \in BOOLEAN : prepare(desc_found, ctx_ok)
    \/ \E evals_ok, child_ok \in BOOLEAN : open(evals_ok, child_ok)
    \/ \E eos_in, alloc_ok, child_ok, child_eos \in BOOLEAN :
          \E child_num_rows \in 0..child_batch_capacity :
             get_next(eos_in, alloc_ok, child_ok, child_num_rows, child_eos)
    \/ \E child_ok \in BOOLEAN : close(child_ok)
    \/ Cancel

Spec == Init /\ [][Next]_vars

\* the same operations on a node built from any plan
SpecAny == InitAny /\ [][Next]_vars

\* ------------------------------------------------------------- properties
K == Len(_repeat_id_list)
GroupingColumnSet == _all_slot_ids
KeepSet(i) == _slot_id_set_list[i + 1]
IndicatorMatrix(j, i) == _grouping_list[j][i + 1]

\* the last call was a get_next that filled row_batch from the buffered batch
Produced == last.op = "get_next" /\ last.repeated
\* the row of the buffered batch the n-th output row was built from
SourceRow(n) == replay_rows[n]

\* C1: in every output row produced under combination i, a value slot that
\* belongs to the grouping column set is null iff it is not in KeepSet[i],
\* and when it is kept it holds the value extracted from the source row.
C1_GroupingSlotNullIffNotKept ==
    Produced =>
        \A n \in 1..Len(row_batch.rows) : \A k \in 1..NumExprs :
            slot_id(k) \in GroupingColumnSet =>
                LET slot == row_batch.rows[n].tuple[k]
                IN /\ slot.is_null <=> slot_id(k) \notin KeepSet(last.idx)
                   /\ ~slot.is_null => slot.val = SourceRow(n).vals[k]

\* a batch of the second combination with a kept and a nulled grouping slot
C1_Witness ==
    /\ Produced
    /\ last.idx = 1
    /\ Len(row_batch.rows) >= 1
    /\ \E k1, k2 \in 1..NumExprs :
          /\ {slot_id(k1), slot_id(k2)} \subseteq GroupingColumnSet
          /\ slot_id(k1) \in KeepSet(1) /\ slot_id(k1) \notin KeepSet(0)
          /\ slot_id(k2) \notin KeepSet(1)
          /\ ~row_batch.rows[1].tuple[k1].is_null
          /\ row_batch.rows[1].tuple[k2].is_null

\* C2: a value slot outside the grouping column set is never null in an
\* output row and holds the value extracted from the source row, for every
\* combination.
C2_NonGroupingSlotVerbatim ==
    Produced =>
        \A n \in 1..Len(row_batch.rows) : \A k \in 1..NumExprs :
            slot_id(k) \notin GroupingColumnSet =>
                LET slot == row_batch.rows[n].tuple[k]
                IN ~slot.is_null /\ slot.val = SourceRow(n).vals[k]

\* a produced row with a slot outside the grouping column set, which no keep
\* set holds, next to a grouping slot that is nulled
C2_Witness ==
    /\ Produced
    /\ Len(row_batch.rows) >= 1
    /\ \E k1, k2 \in 1..NumExprs :
          /\ slot_id(k1) \notin GroupingColumnSet
          /\ slot_id(k1) \notin KeepSet(last.idx)
          /\ row_batch.rows[1].tuple[k1].val = SourceRow(1).vals[k1]
          /\ slot_id(k2) \in GroupingColumnSet
          /\ row_batch.rows[1].tuple[k2].is_null

GetNextStep == last'.op = "get_next" /\ UNCHANGED <<is_cancelled, close_calls>>
\* a step of close
CloseStep == close_calls' = close_calls + 1

\* C4: every successful get_next that replays the buffered batch emits
\* exactly its R rows, each input row once and in place; the combinations
\* emitted since the pull are 0, 1, ... without gap or repeat, at most K of
\* them, so that the rows emitted for one child batch add up to R times the
\* number of combinations emitted, R x K when all K are done.
C4_RowsPerCombination ==
    /\ Produced =>
          /\ Len(row_batch.rows) = Len(replay_rows)
          /\ \A n \in 1..Len(replay_rows) : row_batch.rows[n].src = replay_rows[n].id
          /\ Len(replay_idx) >= 1
          /\ replay_idx[Len(replay_idx)] = last.idx
    /\ Len(replay_idx) <= K
    /\ \A m \in 1..Len(replay_idx) : replay_idx[m] = m - 1
    /\ replay_emitted = Len(replay_rows) * Len(replay_idx)

\* the last of the K >= 2 batches of a child batch of two rows pulled without
\* error
C4_Witness ==
    /\ Produced
    /\ replay_status = "OK"
    /\ K >= 2
    /\ Len(replay_idx) = K
    /\ Len(replay_rows) = 2
    /\ Len(row_batch.rows) = 2
    /\ replay_emitted = 2 * K

\* C5: once K batches have been produced from one child pull no batch is
\* buffered and the combination index is 0; a get_next call pulls the child at
\* most once, and only when no batch is buffered; the call that follows the
\* K-th batch pulls the child unless the child has signaled end-of-stream
\* (a call made after cancellation fails before it does anything).
C5_BufferCycle ==
    /\ [](Len(replay_idx) = K => _child_row_batch.null /\ _repeat_id_idx = 0)
    /\ [][GetNextStep =>
            /\ child_pulls' \in {child_pulls, child_pulls + 1}
            /\ child_pulls' # child_pulls => _child_row_batch.null
            /\ (Produced /\ Len(replay_idx) = K /\ ~is_cancelled /\ ~_child_eos)
                  => (child_pulls' = child_pulls + 1 /\ last'.pulled)
            /\ (Produced /\ Len(replay_idx) < K) => child_pulls' = child_pulls
         ]_vars

\* the call after the K-th batch (K >= 2) has pulled the second child batch
C5_Witness ==
    /\ K >= 2
    /\ last.op = "get_next"
    /\ last.after_replay
    /\ last.pulled
    /\ ~last.buffered
    /\ child_pulls = 2
    /\ replay_status = "OK"
    /\ Len(replay_rows) >= 1

\* C6: when the child pull of a get_next call succeeds with a batch of zero
\* rows, the call returns OK with eos true and an empty output batch, and no
\* batch stays buffered, whether or not the child signaled end-of-stream.
C6_EmptyPullIsEos ==
    (last.op = "get_next" /\ last.pulled /\ last.child_status = "OK"
        /\ last.child_num_rows = 0)
    => (last.status = "OK" /\ eos /\ row_batch = EmptyRowBatch /\ _child_row_batch.null)

\* an empty pull of a child that has more data, by a caller whose eos was false
C6_Witness ==
    /\ last.op = "get_next"
    /\ last.pulled
    /\ last.child_status = "OK"
    /\ last.child_num_rows = 0
    /\ ~_child_eos
    /\ ~last.eos_in
    /\ eos

\* C7: once a get_next call has set eos to true, every later call that is
\* not cancelled returns OK with eos true and an empty output batch, and
\* does not pull the child.
C7_EosIsTerminal ==
    [][(eos_reported /\ GetNextStep /\ ~is_cancelled) =>
          /\ last'.status = "OK"
          /\ eos'
          /\ row_batch' = EmptyRowBatch
          /\ ~last'.pulled
          /\ child_pulls' = child_pulls]_vars

\* C8: a get_next call that returns OK leaves either at least one row and
\* eos false, or no row and eos true, whatever eos held on entry.
C8_RowsXorEos ==
    (last.op = "get_next" /\ last.status = "OK") =>
        \/ (Len(row_batch.rows) >= 1 /\ eos = FALSE)
        \/ (Len(row_batch.rows) = 0 /\ eos = TRUE)

\* C9: a get_next call made while cancellation is signaled returns the
\* cancellation error, does not pull the child, adds no row to the output
\* batch, and leaves the buffered batch, the combination index and the
\* child's end-of-stream flag as they were.
C9_CancelledDoesNothing ==
    [][(GetNextStep /\ is_cancelled) =>
          /\ last'.status = "Cancelled"
          /\ ~last'.pulled
          /\ child_pulls' = child_pulls
          /\ row_batch'.rows = <<>> /\ row_batch'.added = 0
          /\ UNCHANGED <<_child_row_batch, _repeat_id_idx, _child_eos>>]_vars

\* a cancelled call made while a batch was being replayed
C9_Witness ==
    /\ last.op = "get_next"
    /\ last.status = "Cancelled"
    /\ is_cancelled
    /\ ~_child_row_batch.null
    /\ Len(_child_row_batch.rows) >= 1
    /\ _repeat_id_idx >= 1

\* C10: once close has been called, whatever it returned, a further close
\* closes neither the extractors nor the child again and changes no state of
\* the node.
C10_CloseIdempotent ==
    [][(CloseStep /\ close_calls >= 1) =>
          /\ UNCHANGED <<child_close_calls, expr_close_calls, eval_close_calls>>
          /\ UNCHANGED node_vars]_vars

\* the sizes of the grouping plan agree: K is positive, there are K keep
\* sets and K entries in every indicator column, and the output layout has
\* one slot per value expression and per indicator column
PlanConsistent ==
    /\ K >= 1
    /\ Len(_slot_id_set_list) = K
    /\ \A j \in 1..Len(_grouping_list) : Len(_grouping_list[j]) = K
    /\ Len(OutputTupleDesc.slots) = NumExprs + Len(_grouping_list)

\* C11: a node built from an inconsistent grouping plan never gets through
\* setup: prepare does not succeed on it, so that it is never opened and
\* get_next never runs on it.
C11_InconsistentPlanRejected ==
    ~PlanConsistent =>
        /\ phase \notin {"prepared", "opened"}
        /\ last.op # "get_next"

\* C12: a get_next call whose child pull returns an error returns that
\* error, has called the child's get_next once, and leaves the output batch
\* without any row.
C12_ChildErrorPropagated ==
    /\ []((last.op = "get_next" /\ last.pulled /\ last.child_status # "OK") =>
            /\ last.status = last.child_status
            /\ ~last.repeated
            /\ row_batch.rows = <<>>
            /\ row_batch.added = 0)
    /\ [][(GetNextStep /\ last'.pulled /\ last'.child_status # "OK") =>
            child_pulls' = child_pulls + 1]_vars

\* a failed pull in which the child had put rows into the batch
C12_Witness ==
    /\ last.op = "get_next"
    /\ last.pulled
    /\ last.child_status = "ChildError"
    /\ last.status = "ChildError"
    /\ last.child_num_rows >= 1
    /\ child_pulls = 1

\* the child has signaled end-of-stream together with a batch that holds rows
FinalBatch == _child_eos /\ replay_status = "OK" /\ Len(replay_rows) >= 1

\* C13: when the child signals end-of-stream together with a non-empty
\* batch, every successful get_next call that replays that batch returns its
\* rows with eos false, K batches are produced from it, the call after them
\* returns eos true with an empty batch, and the child's get_next is not
\* called once the child has signaled end-of-stream.
C13_FinalBatchExpanded ==
    /\ []((FinalBatch /\ Produced) =>
            /\ Len(row_batch.rows) = Len(replay_rows)
            /\ eos = FALSE)
    /\ []((FinalBatch /\ _child_row_batch.null) => Len(replay_idx) = K)
    /\ [][(GetNextStep /\ _child_eos) => child_pulls' = child_pulls]_vars
    /\ [][(GetNextStep /\ FinalBatch /\ _child_row_batch.null /\ ~is_cancelled) =>
            /\ last'.status = "OK"
            /\ eos'
            /\ row_batch' = EmptyRowBatch]_vars

\* C14: the batches produced from one child batch carry the combination
\* indexes 0, 1, 2, ... in this order, none skipped or repeated; the child
\* is pulled again only when the batch before had no row or all its K
\* batches have been produced; the rows of an output batch follow the order
\* of the rows of the buffered batch.
C14_OutputOrder ==
    /\ [](\A m \in 1..Len(replay_idx) : replay_idx[m] = m - 1)
    /\ [](Produced =>
            /\ last.idx = Len(replay_idx) - 1
            /\ [n \in 1..Len(row_batch.rows) |-> row_batch.rows[n].src]
                 = [n \in 1..Len(replay_rows) |-> replay_rows[n].id])
    /\ [][(GetNextStep /\ child_pulls' # child_pulls) =>
            (replay_rows = <<>> \/ Len(replay_idx) = K)]_vars

\* the second batch of two rows of the second child batch
C14_Witness ==
    /\ Produced
    /\ child_pulls = 2
    /\ last.idx = 1
    /\ replay_idx = <<0, 1>>
    /\ Len(row_batch.rows) = 2
    /\ row_batch.rows[1].src = <<2, 1>>
    /\ row_batch.rows[2].src = <<2, 2>>

\* C15: a get_next call in which the allocation of the tuple buffer fails
\* returns the allocation error with no committed row in the output batch
\* (the one row added is not committed, and nothing is added after it),
\* leaves the combination index where it was and keeps the batch buffered.
C15_AllocationFailure ==
    [][(GetNextStep /\ last'.status = "InternalError") =>
          /\ row_batch'.rows = <<>>
          /\ row_batch'.added = 1
          /\ ~last'.repeated
          /\ _repeat_id_idx' = _repeat_id_idx
          /\ ~_child_row_batch'.null
          /\ _child_row_batch'.rows = replay_rows'
          /\ ~_child_row_batch.null => UNCHANGED <<_child_row_batch, hist_vars>>]_vars

\* the allocation failed for the second batch of a buffered batch of two rows
C15_Witness ==
    /\ last.op = "get_next"
    /\ last.status = "InternalError"
    /\ last.buffered
    /\ _repeat_id_idx = 1
    /\ replay_idx = <<0>>
    /\ Len(_child_row_batch.rows) = 2
    /\ row_batch.rows = <<>>

\* C16: after a get_next call that failed because the child's get_next
\* returned an error no batch is buffered, no later call replays the batch of
\* the failed pull, and no later call returns OK with an empty output batch
\* and eos not true because of it.
C16_FailedPullLeavesEmpty ==
    /\ (last.op = "get_next" /\ last.pulled /\ last.child_status # "OK")
          => _child_row_batch.null
    /\ replay_status = "ChildError" =>
          /\ ~Produced
          /\ (last.op = "get_next" /\ last.status = "OK") => (eos /\ row_batch.rows = <<>>)

\* C17: on a node with a consistent plan, between calls and as long as only
\* get_next has been called on the opened node, the combination index is at
\* least 0 and below K, and it is 0 whenever no batch is buffered.
C17_IndexInvariant ==
    close_calls = 0 =>
        /\ 0 <= _repeat_id_idx
        /\ _repeat_id_idx < K
        /\ _child_row_batch.null => _repeat_id_idx = 0

\* the index stands at K - 1 >= 1 in the replay of the second child batch
C17_Witness ==
    /\ close_calls = 0
    /\ Produced
    /\ child_pulls = 2
    /\ K >= 2
    /\ _repeat_id_idx = K - 1
    /\ ~_child_row_batch.null

C19_CloseReleases ==
    [][(CloseStep /\ ~_is_closed) =>
          /\ _child_row_batch'.null
          /\ row_batch'.rows = <<>>
          /\ child_pulls' = child_pulls
          /\ _expr_evals_size' = 0
          /\ eval_close_calls' = eval_close_calls + _expr_evals_size
          /\ expr_close_calls' = expr_close_calls + 1
          /\ child_close_calls' = child_close_calls + 1
          /\ last'.status = (IF _is_closed' THEN "OK" ELSE "ChildError")]_vars

\* a close in the middle of a replay whose child close failed
C19_Witness ==
    /\ last.op = "close"
    /\ last.status = "ChildError"
    /\ close_calls = 1
    /\ _repeat_id_idx >= 1
    /\ _child_row_batch.null
    /\ _expr_evals_size = 0
    /\ eval_close_calls = NumExprs
    /\ child_close_calls = 1
====
